---- MODULE Spec2Model ----
(***************************************************************************)
(* Model of vidscraper/suites/base.py: the field-resolution planner        *)
(* (BaseSuite.load_video_data / _run_methods / apply_video_data driven by  *)
(* ScrapedVideo.load) and the paginated iteration protocol                 *)
(* (BaseScrapedVideoIterator.__iter__ as used by ScrapedSearch and         *)
(* ScrapedFeed), and the suite registry (SuiteRegistry, with the url       *)
(* classifiers of BaseSuite).                                              *)
(***************************************************************************)
EXTENDS FiniteSets, Integers, Sequences, TLC

VARIABLES
    suite,      \* the adapter: coverage sets and which optional accessors it implements
    video,      \* the ScrapedVideo: fields, attrs, _loaded
    fetches,    \* every urlopen() made by _run_methods so far, in order (method names)
    calls,      \* number of load()/load_video_data()/apply_video_data() calls made
    last,       \* what the last call did (history of the last handler run)
    it,         \* the iterator object (ScrapedSearch / ScrapedFeed), or NoIterator
    gen,        \* the generator created by __iter__: its position and locals
    server,     \* the remote service: items per page
    log,        \* history of the iteration: page fetches, emissions, pulls, passes
    registry    \* the module's SuiteRegistry: _suites and _suite_dict

vars == <<suite, video, fetches, calls, last, it, gen, server, log, registry>>

None == "None"

----------------------------------------------------------------------------
(* Bounds of the model                                                      *)

\* number of load() / load_video_data() / apply_video_data() calls explored
MaxCalls == 2

\* largest max_results given to an iterator
MaxCap == 15

\* largest number of pages of a remote listing
MaxPages == 3

\* number of passes (calls of __iter__) over one iterator
MaxPasses == 2

\* number of pulls (calls of next) on one generator
MaxPulls == 3

\* length of the registry's list of suites up to which register is explored
MaxSuites == 3

----------------------------------------------------------------------------
(* ScrapedVideo                                                             *)

\* ScrapedVideo._all_fields, restricted to four of its thirteen names
all_fields == {"title", "description", "thumbnail_url", "file_url"}

\* a name a caller may pass in `fields` that is not in _all_fields
UnknownField == "bogus"

\* the three acquisition methods, in the order the planner names them
Methods == {"oembed", "api", "scrape"}

\* the values of the `fields` argument of ScrapedVideo: None or a list of names
FieldsArgs ==
    { [ is_none |-> TRUE, names |-> {} ] } \cup
    { [ is_none |-> FALSE, names |-> n ] : n \in SUBSET (all_fields \cup {UnknownField}) }

\* ScrapedVideo.__init__, lines 167-178: fields is filtered by _all_fields,
\* every attribute starts at the class default None, _loaded starts False
ScrapedVideo_init(fields) ==
    [ fields |-> IF fields.is_none THEN all_fields
                 ELSE { f \in fields.names : f \in all_fields },
      attrs  |-> [ f \in all_fields |-> None ],
      loaded |-> FALSE ]

\* ScrapedVideo.missing_fields
missing_fields(v) == { f \in v.fields : v.attrs[f] = None }

----------------------------------------------------------------------------
(* BaseSuite: merge                                                         *)

\* the merge without the test that the attribute is still None
apply_video_data_overwrite(v, data) ==
    [ v EXCEPT !.attrs =
        [ f \in all_fields |->
            IF f \in DOMAIN data /\ f \in v.fields
            THEN data[f] ELSE v.attrs[f] ] ]

\* the merge without the test that the field is one of video.fields
apply_video_data_any_field(v, data) ==
    [ v EXCEPT !.attrs =
        [ f \in all_fields |->
            IF f \in DOMAIN data /\ v.attrs[f] = None
            THEN data[f] ELSE v.attrs[f] ] ]

\* BaseSuite.apply_video_data: a value is stored only for a requested field
\* whose attribute is still None
apply_video_data(v, data) ==
    [ v EXCEPT !.attrs =
        [ f \in all_fields |->
            IF f \in DOMAIN data /\ f \in v.fields /\ v.attrs[f] = None
            THEN data[f] ELSE v.attrs[f] ] ]

----------------------------------------------------------------------------
(* BaseSuite: the planner                                                   *)

\* the list of combinations with the largest first
METHOD_COMBOS_largest_first ==
    << <<"oembed", "api", "scrape">>,
       <<"oembed", "api">>, <<"oembed", "scrape">>, <<"api", "scrape">>,
       <<"oembed">>, <<"api">>, <<"scrape">> >>

\* the literal list of method combinations of load_video_data, in its order
METHOD_COMBOS ==
    << <<"oembed">>, <<"api">>, <<"scrape">>,
       <<"oembed", "api">>, <<"oembed", "scrape">>, <<"api", "scrape">>,
       <<"oembed", "api", "scrape">> >>

\* getattr(self, "%s_fields" % method)
method_fields(s, method) ==
    CASE method = "oembed" -> s.oembed_fields
      [] method = "api"    -> s.api_fields
      [] method = "scrape" -> s.scrape_fields

\* field_set = union of the coverage of the methods of one combination
field_set(s, methods) ==
    UNION { method_fields(s, methods[i]) : i \in DOMAIN methods }

\* remaining = len(missing_fields - field_set)
remaining_count(s, missing, methods) ==
    Cardinality(missing \ field_set(s, methods))

\* remaining_dict.setdefault(remaining, []).append(methods)
setdefault_append(remaining_dict, remaining, methods) ==
    IF remaining \in DOMAIN remaining_dict
    THEN [ remaining_dict EXCEPT ![remaining] = Append(@, methods) ]
    ELSE [ i \in DOMAIN remaining_dict \cup {remaining} |->
             IF i = remaining THEN <<methods>> ELSE remaining_dict[i] ]

\* the loop that keeps looking after a combination that leaves nothing missing
RECURSIVE combos_loop_no_exact(_, _, _, _)
combos_loop_no_exact(s, missing, k, remaining_dict) ==
    IF k > Len(METHOD_COMBOS)
    THEN [ exact |-> IF 0 \in DOMAIN remaining_dict
                     THEN remaining_dict[0][Len(remaining_dict[0])] ELSE <<>>,
           remaining_dict |-> remaining_dict ]
    ELSE LET methods   == METHOD_COMBOS[k]
             remaining == Cardinality(missing \
                             UNION { method_fields(s, methods[i]) : i \in DOMAIN methods })
         IN  IF remaining < Cardinality(missing)
             THEN combos_loop_no_exact(s, missing, k + 1,
                     IF remaining \in DOMAIN remaining_dict
                     THEN [ remaining_dict EXCEPT ![remaining] = Append(@, methods) ]
                     ELSE [ i \in DOMAIN remaining_dict \cup {remaining} |->
                              IF i = remaining THEN <<methods>> ELSE remaining_dict[i] ])
             ELSE combos_loop_no_exact(s, missing, k + 1, remaining_dict)

\* the loop over the combinations, from the k-th on: it stops at the first
\* combination that leaves nothing missing, and otherwise files every
\* combination that reduces the number of missing fields under its count
RECURSIVE combos_loop(_, _, _, _)
combos_loop(s, missing, k, remaining_dict) ==
    IF k > Len(METHOD_COMBOS)
    THEN [ exact |-> <<>>, remaining_dict |-> remaining_dict ]
    ELSE LET methods   == METHOD_COMBOS[k]
             remaining == remaining_count(s, missing, methods)
         IN  IF remaining = 0
             THEN [ exact |-> methods, remaining_dict |-> remaining_dict ]
             ELSE IF remaining < Cardinality(missing)
             THEN combos_loop(s, missing, k + 1,
                              setdefault_append(remaining_dict, remaining, methods))
             ELSE combos_loop(s, missing, k + 1, remaining_dict)

\* a slot's last entry instead of its first
slot_entry_last(entries) == entries[Len(entries)]

\* remaining_dict[i][0]: the entry of a slot that is run
slot_entry(entries) == entries[1]

\* for i in xrange(len(missing_fields)): the first slot present is run
RECURSIVE best_slot(_, _, _)
best_slot(remaining_dict, i, n) ==
    IF i >= n THEN <<>>
    ELSE IF i \in DOMAIN remaining_dict THEN slot_entry(remaining_dict[i])
    ELSE best_slot(remaining_dict, i + 1, n)

\* a planner that runs the first combination when none improves
select_methods_some(s, missing) ==
    LET r == combos_loop(s, missing, 1, << >>)
        b == best_slot(r.remaining_dict, 0, Cardinality(missing))
    IN  IF r.exact # <<>> THEN r.exact
        ELSE IF b # <<>> THEN b
        ELSE METHOD_COMBOS[1]

\* the combination load_video_data runs for a non-empty set of missing
\* fields, <<>> when it runs none
select_methods(s, missing) ==
    LET r == combos_loop(s, missing, 1, << >>)
    IN  IF r.exact # <<>> THEN r.exact
        ELSE best_slot(r.remaining_dict, 0, Cardinality(missing))

----------------------------------------------------------------------------
(* BaseSuite: running the selected methods                                  *)

\* what the network and the remote document do to one fetch: the document
\* is parsed, the request fails, the parser raises, or the document is
\* parsed but holds none of the fields (the parser returns None for each)
Outcomes == {"ok", "fetch_error", "parse_error", "sparse"}

\* what a suite implements of one method: both accessors, no get_<m>_url
\* (BaseSuite.get_api_url, get_scrape_url; get_oembed_url when
\* oembed_endpoint is None), or the url but no parse_<m>_response
Capabilities == {"both", "no_url", "no_parse"}

\* the data parse_<method>_response returns for the serial-th fetch: the
\* fields the method covers, each with a value that names the fetch
parsed_data(s, method, serial) ==
    [ f \in method_fields(s, method) |-> ToString(serial) ]

\* the data parse_<method>_response returns for a document that holds none
\* of the fields
sparse_data(s, method) ==
    [ f \in method_fields(s, method) |-> None ]

\* one turn of the loop of _run_methods for methods[i]; r is the state of
\* the run so far: the video, the methods fetched, the data their parsers
\* returned, the exception raised
run_one(s, method, outcome, serial, r) ==
    IF s.cap[method] = "no_url"
    THEN [ r EXCEPT !.raised = "NotImplementedError" ]
    ELSE LET fetched == Append(r.fetched, method)
         IN  IF outcome = "fetch_error"
             THEN [ r EXCEPT !.fetched = fetched, !.raised = "URLError" ]
             ELSE IF s.cap[method] = "no_parse"
             THEN [ r EXCEPT !.fetched = fetched, !.raised = "NotImplementedError" ]
             ELSE IF outcome = "parse_error"
             THEN [ r EXCEPT !.fetched = fetched, !.raised = "ValueError" ]
             ELSE LET data == IF outcome = "sparse"
                              THEN sparse_data(s, method)
                              ELSE parsed_data(s, method, serial)
                  IN  [ r EXCEPT !.fetched = fetched,
                                 !.supplied = Append(@, data),
                                 !.video = apply_video_data(r.video, data) ]

\* the loop that walks the list of methods from its end
RECURSIVE run_methods_reversed(_, _, _, _, _, _)
run_methods_reversed(s, methods, outcomes, n0, i, r) ==
    IF i > Len(methods) \/ r.raised # None THEN r
    ELSE run_methods_reversed(s, methods, outcomes, n0, i + 1,
             run_one(s, methods[Len(methods) + 1 - i],
                     outcomes[methods[Len(methods) + 1 - i]],
                     n0 + Len(r.fetched) + 1, r))

\* the loop that drops the exception of a method and goes on with the next
RECURSIVE run_methods_continue(_, _, _, _, _, _)
run_methods_continue(s, methods, outcomes, n0, i, r) ==
    IF i > Len(methods) THEN r
    ELSE run_methods_continue(s, methods, outcomes, n0, i + 1,
             [ run_one(s, methods[i], outcomes[methods[i]],
                       n0 + Len(r.fetched) + 1, r) EXCEPT !.raised = None ])

\* BaseSuite._run_methods: the methods run in the order given, an exception
\* ends the loop; n0 is the number of fetches made before this run
RECURSIVE run_methods(_, _, _, _, _, _)
run_methods(s, methods, outcomes, n0, i, r) ==
    IF i > Len(methods) \/ r.raised # None THEN r
    ELSE run_methods(s, methods, outcomes, n0, i + 1,
             run_one(s, methods[i], outcomes[methods[i]],
                     n0 + Len(r.fetched) + 1, r))

\* the early return left out
nothing_missing_never(missing) == FALSE

\* if not missing_fields: return
nothing_missing(missing) == missing = {}

\* BaseSuite.load_video_data
load_video_data(s, v, outcomes, n0) ==
    LET missing == missing_fields(v)
        idle    == [ video |-> v, fetched |-> <<>>, supplied |-> <<>>,
                     raised |-> None ]
    IN  IF nothing_missing(missing)
        THEN [ plan |-> <<>>, run |-> idle ]
        ELSE LET methods == select_methods(s, missing)
             IN  [ plan |-> methods,
                   run  |-> run_methods(s, methods, outcomes, n0, 1, idle) ]

----------------------------------------------------------------------------
(* SuiteRegistry and the url classifiers of BaseSuite                       *)

\* the suite classes a program defines
SuiteClasses == {"A", "B", "C"}

\* the urls looked up
Urls == {"u1", "u2"}

\* a class attribute video_regex / feed_regex: left at None (not declared),
\* or a compiled pattern, which is the set of urls it matches
Regexes ==
    { [ declared |-> FALSE, matches |-> {} ],
      [ declared |-> TRUE,  matches |-> {"u1"} ],
      [ declared |-> TRUE,  matches |-> Urls ] }

\* the definitions of the suite classes: each declares its two patterns or not
ClassDefinitions ==
    [ SuiteClasses -> [ video_regex : Regexes, feed_regex : Regexes ] ]

\* no suite instance
NoSuite == [ class |-> None, serial |-> 0 ]

\* no ScrapedVideo
NoVideo == [ url |-> None ]

\* SuiteRegistry.__init__: _suites = [], _suite_dict = {}
SuiteRegistry_init ==
    [ suites |-> <<>>, suite_dict |-> [ c \in {} |-> NoSuite ] ]

\* the instance attributes of a SuiteRegistry
SuiteRegistry_attributes == {"_suites", "_suite_dict"}

\* SuiteRegistry.suites: tuple(self._suites)
suites_of(reg) == reg.suites

\* suite(): the serial-th suite instance created, of the given class
new_suite(suite_class, serial) == [ class |-> suite_class, serial |-> serial ]

\* register without the test that the suite is not registered yet
register_unchecked(reg, suite_class, serial) ==
    [ suites     |-> Append(reg.suites, [ class |-> suite_class, serial |-> serial ]),
      suite_dict |-> [ c \in DOMAIN reg.suite_dict \cup {suite_class} |->
                         IF c = suite_class
                         THEN [ class |-> suite_class, serial |-> serial ]
                         ELSE reg.suite_dict[c] ] ]

\* SuiteRegistry.register
register(reg, suite_class, serial) ==
    IF suite_class \notin DOMAIN reg.suite_dict
    THEN LET instance == new_suite(suite_class, serial)
         IN  [ suites     |-> Append(reg.suites, instance),
               suite_dict |-> [ c \in DOMAIN reg.suite_dict \cup {suite_class} |->
                                  IF c = suite_class THEN instance
                                  ELSE reg.suite_dict[c] ] ]
    ELSE reg

\* list.remove(x): the list without the first element equal to x
RECURSIVE list_remove(_, _)
list_remove(l, x) ==
    IF l = <<>> THEN <<>>
    ELSE IF Head(l) = x THEN Tail(l)
    ELSE <<Head(l)>> \o list_remove(Tail(l), x)

\* SuiteRegistry.unregister: its test reads self._suite_set, an attribute
\* that is never set, before anything else
unregister(reg, suite_class) ==
    IF "_suite_set" \notin SuiteRegistry_attributes
    THEN [ raised |-> "AttributeError", registry |-> reg ]
    ELSE IF suite_class \in DOMAIN reg.suite_dict
    THEN [ raised   |-> None,
           registry |-> [ suites     |-> list_remove(reg.suites, reg.suite_dict[suite_class]),
                          suite_dict |-> [ c \in DOMAIN reg.suite_dict \ {suite_class} |->
                                             reg.suite_dict[c] ] ] ]
    ELSE [ raised |-> None, registry |-> reg ]

\* BaseSuite.handles_video_url: bool(self.video_regex.match(url)); None has
\* no match, which becomes NotImplementedError
handles_video_url(class, url) ==
    IF ~class.video_regex.declared
    THEN [ raised |-> "NotImplementedError", value |-> FALSE ]
    ELSE [ raised |-> None, value |-> url \in class.video_regex.matches ]

\* BaseSuite.handles_feed_url: its body matches self.video_regex as well
handles_feed_url(class, url) ==
    IF ~class.video_regex.declared
    THEN [ raised |-> "NotImplementedError", value |-> FALSE ]
    ELSE [ raised |-> None, value |-> url \in class.video_regex.matches ]

\* a scan that lets every exception of a classifier through
caught_nothing(exception) == FALSE

\* except NotImplementedError: pass
caught(exception) == exception = "NotImplementedError"

\* the scan falling off its end without raising
cant_identify_silent == [ raised |-> None, suite |-> NoSuite ]

\* raise CantIdentifyUrl
cant_identify == [ raised |-> "CantIdentifyUrl", suite |-> NoSuite ]

\* the scan that keeps the last suite that claims the url
RECURSIVE suite_for_video_url_last(_, _, _, _)
suite_for_video_url_last(classes, suites, url, i) ==
    IF i > Len(suites) THEN cant_identify
    ELSE LET rest == suite_for_video_url_last(classes, suites, url, i + 1)
             h    == handles_video_url(classes[suites[i].class], url)
         IN  IF rest.raised = None THEN rest
             ELSE IF h.raised = None /\ h.value
             THEN [ raised |-> None, suite |-> suites[i] ]
             ELSE rest

\* SuiteRegistry.suite_for_video_url, from the i-th registered suite on
RECURSIVE suite_for_video_url(_, _, _, _)
suite_for_video_url(classes, suites, url, i) ==
    IF i > Len(suites) THEN cant_identify
    ELSE LET h == handles_video_url(classes[suites[i].class], url)
         IN  IF h.raised # None
             THEN IF caught(h.raised)
                  THEN suite_for_video_url(classes, suites, url, i + 1)
                  ELSE [ raised |-> h.raised, suite |-> NoSuite ]
             ELSE IF h.value
             THEN [ raised |-> None, suite |-> suites[i] ]
             ELSE suite_for_video_url(classes, suites, url, i + 1)

\* SuiteRegistry.suite_for_feed_url, from the i-th registered suite on
RECURSIVE suite_for_feed_url(_, _, _, _)
suite_for_feed_url(classes, suites, url, i) ==
    IF i > Len(suites) THEN cant_identify
    ELSE LET h == handles_feed_url(classes[suites[i].class], url)
         IN  IF h.raised # None
             THEN IF caught(h.raised)
                  THEN suite_for_feed_url(classes, suites, url, i + 1)
                  ELSE [ raised |-> h.raised, suite |-> NoSuite ]
             ELSE IF h.value
             THEN [ raised |-> None, suite |-> suites[i] ]
             ELSE suite_for_feed_url(classes, suites, url, i + 1)

\* the `suite` argument of ScrapedVideo: None, or a suite instance
SuiteArgs(reg) ==
    { [ is_none |-> TRUE, suite |-> NoSuite ] } \cup
    { [ is_none |-> FALSE, suite |-> reg.suites[i] ] : i \in DOMAIN reg.suites }

\* ScrapedVideo.__init__, lines 162-166: the suite of the new video is the
\* one given if it handles the url, and the registry's choice when none is
\* given; an exception leaves no video
ScrapedVideo_new(classes, reg, url, suite_arg, fields) ==
    LET found ==
          IF suite_arg.is_none
          THEN suite_for_video_url(classes, reg.suites, url, 1)
          ELSE LET h == handles_video_url(classes[suite_arg.suite.class], url)
               IN  IF h.raised # None
                   THEN [ raised |-> h.raised, suite |-> NoSuite ]
                   ELSE IF ~h.value THEN cant_identify
                   ELSE [ raised |-> None, suite |-> suite_arg.suite ]
    IN  [ raised |-> found.raised,
          suite  |-> found.suite,
          video  |-> IF found.raised = None
                     THEN ScrapedVideo_init(fields) ELSE NoVideo ]

----------------------------------------------------------------------------
(* Hydration of one video: state and operations                             *)

NoIterator == [ kind |-> None ]
NoGenerator == [ pc |-> None ]
NoServer == << >>
NoLog ==
    [ requests |-> 0, fetched |-> <<>>, responses |-> <<>>, emitted |-> <<>>,
      handled |-> 0, next_url_calls |-> 0, pulls |-> 0, passes |-> 0,
      ended_before |-> FALSE, raised |-> None ]

\* what a call left behind, for the properties to read
Did(op, v, plan, run) ==
    [ op      |-> op,
      missing |-> missing_fields(v),
      before  |-> v.attrs,
      loaded  |-> v.loaded,
      plan    |-> plan,
      fetched |-> run.fetched,
      supplied |-> run.supplied,
      raised  |-> run.raised ]

\* which accessors a suite leaves unimplemented: none; get_oembed_url
\* (oembed_endpoint is None); parse_scrape_response
CapabilityProfiles ==
    { [ oembed |-> "both",   api |-> "both",   scrape |-> "both" ],
      [ oembed |-> "no_url", api |-> "both",   scrape |-> "both" ],
      [ oembed |-> "both",   api |-> "both",   scrape |-> "no_parse" ] }

\* every suite over the modelled fields: any coverage for each method
Suites ==
    { [ oembed_fields |-> o, api_fields |-> a, scrape_fields |-> c, cap |-> k ] :
        o \in SUBSET all_fields, a \in SUBSET all_fields, c \in SUBSET all_fields,
        k \in CapabilityProfiles }

\* the coverage sets of the suites whose videos are hydrated repeatedly
Covers == { {}, {"title", "file_url"}, {"title", "description"} }

\* the entries of a parsed feed: title and summary, each possibly null
Entries == [ title : {"item", None}, summary : {"item", None} ]

\* parse_youtube_entry: title and description are the entry's title and
\* summary, thumbnail_url is built from the link; embed stands for the keys
\* that name no attribute of ScrapedVideo (UnknownField). The keys link and
\* flash_enclosure_url name fields outside the four modelled
parse_youtube_entry(entry) ==
    [ f \in {"title", "description", "thumbnail_url", UnknownField} |->
        CASE f = "title"       -> entry.title
          [] f = "description" -> entry.summary
          [] OTHER             -> "item" ]

SuiteFamily ==
    { s \in Suites : /\ s.oembed_fields \in Covers
                     /\ s.api_fields \in Covers
                     /\ s.scrape_fields \in Covers }

\* the network outcomes of one run: at most one method's fetch goes wrong
Scenarios ==
    { o \in [ Methods -> Outcomes ] :
        Cardinality({ m \in Methods : o[m] # "ok" }) <= 1 }

\* a suite and a video newly constructed with that suite
InitVideo ==
    /\ suite \in SuiteFamily
    /\ \E fields \in FieldsArgs :
          video = ScrapedVideo_init(fields)
    /\ fetches = <<>>
    /\ calls = 0
    /\ last = [ op |-> None ]
    /\ it = NoIterator
    /\ gen = NoGenerator
    /\ server = NoServer
    /\ log = NoLog
    /\ registry = SuiteRegistry_init

\* load() that sets _loaded whether or not load_video_data raised
Load_marks_always ==
    /\ calls < MaxCalls
    /\ \E outcomes \in Scenarios :
         LET r == IF video.loaded
                  THEN [ plan |-> <<>>,
                         run  |-> [ video |-> video, fetched |-> <<>>,
                                    supplied |-> <<>>, raised |-> None ] ]
                  ELSE load_video_data(suite, video, outcomes, Len(fetches))
         IN  /\ video' = [ r.run.video EXCEPT !.loaded = TRUE ]
             /\ fetches' = fetches \o r.run.fetched
             /\ last' = Did("load", video, r.plan, r.run)
    /\ calls' = calls + 1
    /\ UNCHANGED <<registry, suite, it, gen, server, log>>

\* load() without the test of _loaded
Load_unguarded ==
    /\ calls < MaxCalls
    /\ \E outcomes \in Scenarios :
         LET r == load_video_data(suite, video, outcomes, Len(fetches))
         IN  /\ video' = IF r.run.raised = None
                         THEN [ r.run.video EXCEPT !.loaded = TRUE ]
                         ELSE r.run.video
             /\ fetches' = fetches \o r.run.fetched
             /\ last' = Did("load", video, r.plan, r.run)
    /\ calls' = calls + 1
    /\ UNCHANGED <<registry, suite, it, gen, server, log>>

\* ScrapedVideo.load(): runs the planner unless _loaded, and sets _loaded
\* when load_video_data returns
Load ==
    /\ calls < MaxCalls
    /\ \E outcomes \in Scenarios :
         LET r == IF video.loaded
                  THEN [ plan |-> <<>>,
                         run  |-> [ video |-> video, fetched |-> <<>>,
                                    supplied |-> <<>>, raised |-> None ] ]
                  ELSE load_video_data(suite, video, outcomes, Len(fetches))
         IN  /\ video' = IF r.run.raised = None
                         THEN [ r.run.video EXCEPT !.loaded = TRUE ]
                         ELSE r.run.video
             /\ fetches' = fetches \o r.run.fetched
             /\ last' = Did("load", video, r.plan, r.run)
    /\ calls' = calls + 1
    /\ UNCHANGED <<registry, suite, it, gen, server, log>>

\* suite.load_video_data(video) called directly
LoadVideoData ==
    /\ calls < MaxCalls
    /\ \E outcomes \in Scenarios :
         LET r == load_video_data(suite, video, outcomes, Len(fetches))
         IN  /\ video' = r.run.video
             /\ fetches' = fetches \o r.run.fetched
             /\ last' = Did("load_video_data", video, r.plan, r.run)
    /\ calls' = calls + 1
    /\ UNCHANGED <<registry, suite, it, gen, server, log>>

\* suite.apply_video_data(video, data) with the data of a feed or search item
ApplyVideoData ==
    /\ calls < MaxCalls
    /\ \E entry \in Entries :
         LET data == parse_youtube_entry(entry)
         IN  /\ video' = apply_video_data(video, data)
             /\ last' = [ Did("apply_video_data", video, <<>>,
                              [ fetched |-> <<>>, supplied |-> <<>>, raised |-> None ])
                          EXCEPT !.plan = DOMAIN data ]
    /\ calls' = calls + 1
    /\ UNCHANGED <<registry, suite, fetches, it, gen, server, log>>

Next == Load \/ LoadVideoData \/ ApplyVideoData

Spec == InitVideo /\ [][Next]_vars

----------------------------------------------------------------------------
(* The planner on every coverage: one load_video_data on a new video        *)

\* every suite that implements all its accessors
FullSuites == { s \in Suites : \A m \in Methods : s.cap[m] = "both" }

InitPlan ==
    /\ suite \in FullSuites
    /\ \E fields \in FieldsArgs : video = ScrapedVideo_init(fields)
    /\ fetches = <<>>
    /\ calls = 0
    /\ last = [ op |-> None ]
    /\ it = NoIterator
    /\ gen = NoGenerator
    /\ server = NoServer
    /\ log = NoLog
    /\ registry = SuiteRegistry_init

FirstLoadVideoData == calls = 0 /\ LoadVideoData

NextPlan == FirstLoadVideoData

SpecPlan == InitPlan /\ [][NextPlan]_vars

----------------------------------------------------------------------------
(* Feed and search iterators: construction                                  *)

\* the values of the max_results argument: None or a number
MaxResultsArgs ==
    { [ is_none |-> TRUE, value |-> 0 ] } \cup
    { [ is_none |-> FALSE, value |-> n ] : n \in {0, 1, MaxCap} }

\* the names BaseScrapedVideoIterator defines as properties without a setter
ReadOnlyProperties == {"max_results"}

\* ScrapedSearch.__init__: the cap goes to _max_results; total_results and
\* time start at None, _first_response_fetched at the class default False
ScrapedSearch_init(crawl, max_results) ==
    [ raised |-> None,
      object |-> [ kind |-> "search",
                   crawl |-> crawl,
                   max_results |-> max_results,
                   fields |-> [ is_none |-> TRUE, names |-> {} ],
                   first_response_fetched |-> FALSE,
                   total_results |-> None,
                   time |-> None ] ]

\* the definitions of the class of a suite given to ScrapedFeed
FeedClassDefinitions ==
    [ {"A"} -> [ video_regex : Regexes, feed_regex : Regexes ] ]

\* the `suite` argument of ScrapedFeed: None, or an instance of the class
FeedSuiteArgs ==
    { [ is_none |-> TRUE, suite |-> NoSuite ],
      [ is_none |-> FALSE, suite |-> new_suite("A", 1) ] }

\* ScrapedFeed.__init__: without a suite the registry chooses one for the
\* url, a suite given must handle the url as a feed (lines 337-340); then
\* the assignment self.max_results = max_results is to a property that has
\* no setter, which raises AttributeError; the object never reaches the
\* caller
ScrapedFeed_init(classes, reg, url, suite_arg, crawl, max_results) ==
    LET found ==
          IF suite_arg.is_none
          THEN suite_for_feed_url(classes, reg.suites, url, 1)
          ELSE LET h == handles_feed_url(classes[suite_arg.suite.class], url)
               IN  IF h.raised # None
                   THEN [ raised |-> h.raised, suite |-> NoSuite ]
                   ELSE IF ~h.value THEN cant_identify
                   ELSE [ raised |-> None, suite |-> suite_arg.suite ]
    IN
    IF found.raised # None
    THEN [ raised |-> found.raised, object |-> NoIterator ]
    ELSE IF "max_results" \in ReadOnlyProperties
    THEN [ raised |-> "AttributeError", object |-> NoIterator ]
    ELSE [ raised |-> None,
           object |-> [ kind |-> "feed",
                        crawl |-> crawl,
                        max_results |-> max_results,
                        fields |-> [ is_none |-> TRUE, names |-> {} ],
                        first_response_fetched |-> FALSE,
                        total_results |-> None,
                        time |-> None ] ]

----------------------------------------------------------------------------
(* Feed and search iterators: the accessors the suite supplies              *)

\* what a suite implements of the iteration accessors:
\*   first_url : get_search_url is overridden (BaseSuite raises NotImplementedError)
\*   response  : "override" when get_search_response is overridden, "default"
\*               for BaseSuite.get_search_response
\*   item_data : parse_search_result / parse_feed_entry is overridden
\*   next_url  : "paged" when get_next_search_page_url is overridden,
\*               "default" for the BaseSuite one, which returns None
IterSuites ==
    [ first_url : BOOLEAN, response : {"default", "override"},
      item_data : BOOLEAN, next_url : {"default", "paged"} ]

\* the url of the k-th page of the remote listing
page_url(k) == ToString(k)

\* the page a url names
page_of(url, srv) == CHOOSE k \in DOMAIN srv : page_url(k) = url

\* get_response_items: the items of a response, in page order
response_items(response, srv) ==
    [ i \in 1..srv[page_of(response.url, srv)] |->
        << page_of(response.url, srv), i >> ]

\* get_next_url: None by default, the following page's url when the suite
\* pages and the listing has a following page
next_url(su, response, srv) ==
    IF su.next_url = "default" THEN None
    ELSE IF page_of(response.url, srv) < Len(srv)
         THEN page_url(page_of(response.url, srv) + 1)
         ELSE None

\* the parameters of ScrapedVideo.__init__ after self
ScrapedVideo_params == {"url", "suite", "fields", "api_keys"}

\* the arguments BaseSuite.get_video passes to ScrapedVideo
get_video_arguments == {"url", "suite", "fields", "api_key"}

\* BaseSuite.get_video: the call of ScrapedVideo with a keyword that
\* ScrapedVideo.__init__ does not take raises TypeError
get_video(fields) ==
    IF get_video_arguments \subseteq ScrapedVideo_params
    THEN [ raised |-> None, video |-> ScrapedVideo_init(fields) ]
    ELSE [ raised |-> "TypeError", video |-> ScrapedVideo_init(fields) ]

\* the arguments get_feed_response takes after self, and those
\* BaseSuite.get_search_response passes to it
get_feed_response_params == {"feed", "feed_url"}
get_search_response_arguments == {"search_url"}

----------------------------------------------------------------------------
(* BaseScrapedVideoIterator.__iter__                                        *)

NoResponse == [ url |-> None, id |-> None ]

\* the generator object a call of __iter__ returns: nothing of the body has
\* run, the first next() starts it
new_generator(o) ==
    [ pc |-> "start", url |-> None, item_count |-> 0,
      response |-> NoResponse, items |-> <<>>, idx |-> 0,
      video |-> ScrapedVideo_init([ is_none |-> TRUE, names |-> {} ]) ]

\* the names the body of __iter__ assigns
IterLocals == {"url", "item_count", "response", "items", "item", "data", "video"}

\* the name the condition of the while loop compares with _max_results
loop_counter_name == "result_count"

\* the generator ends: by StopIteration when e is None, by the exception e
\* otherwise
finish(m, e) ==
    [ m EXCEPT !.gen.pc = "done", !.log.raised = e ]

\* lines 245-246: the first url; NotImplementedError is caught at line 272
do_start(m, su) ==
    IF ~ su.first_url THEN finish(m, None)
    ELSE [ m EXCEPT !.gen.url = page_url(1), !.gen.item_count = 0,
                    !.gen.pc = "while" ]

\* line 247: the condition of the while loop; the name it reads is looked up
\* only when _max_results is not None
do_while(m) ==
    IF m.it.max_results.is_none THEN [ m EXCEPT !.gen.pc = "fetch" ]
    ELSE IF loop_counter_name \notin IterLocals THEN finish(m, "NameError")
    ELSE IF m.gen[loop_counter_name] < m.it.max_results.value
         THEN [ m EXCEPT !.gen.pc = "fetch" ]
         ELSE finish(m, None)

\* every response handled as the first
first_response_always(o) == TRUE

\* if not self._first_response_fetched
first_response_needed(o) == ~ o.first_response_fetched

\* handle_first_response: the flag is set and the metadata is taken from
\* this response
handle_first_response(m, response) ==
    [ m EXCEPT !.it.first_response_fetched = TRUE,
               !.it.total_results = response.id,
               !.it.time = response.id,
               !.log.handled = @ + 1 ]

\* lines 248-251: one page is fetched, the first response is handled, the
\* items are taken; net is what the network does to this fetch
do_fetch(m, su, srv, net) ==
    IF su.response = "default"
       /\ get_search_response_arguments # get_feed_response_params
    THEN finish(m, "TypeError")
    ELSE LET serial   == m.log.requests + 1
             asked    == [ m EXCEPT !.log.requests = serial,
                                    !.log.fetched = Append(@, m.gen.url) ]
             response == [ url |-> m.gen.url, id |-> ToString(serial) ]
             got      == [ asked EXCEPT !.gen.response = response,
                                        !.log.responses = Append(@, response.id) ]
             handled  == IF first_response_needed(got.it)
                         THEN handle_first_response(got, response)
                         ELSE got
         IN  IF net = "error" THEN finish(asked, "URLError")
             ELSE [ handled EXCEPT !.gen.items = response_items(response, srv),
                                   !.gen.idx = 0,
                                   !.gen.pc = "for" ]

\* the next page asked for after an empty page too
do_else_after_empty(m, su, srv) ==
    LET url   == IF m.it.crawl THEN next_url(su, m.gen.response, srv) ELSE None
        asked == IF m.it.crawl
                 THEN [ m EXCEPT !.log.next_url_calls = @ + 1 ] ELSE m
    IN  IF url = None THEN [ asked EXCEPT !.gen.pc = "done", !.log.raised = None ]
        ELSE [ asked EXCEPT !.gen.url = url, !.gen.pc = "while" ]

\* lines 262-271: the page is exhausted; the next page is asked for when
\* crawl is set and the page had items
do_else(m, su, srv) ==
    LET crawling == m.it.crawl /\ m.gen.items # <<>>
        url      == IF crawling THEN next_url(su, m.gen.response, srv) ELSE None
        asked    == IF crawling
                    THEN [ m EXCEPT !.log.next_url_calls = @ + 1 ] ELSE m
    IN  IF url = None THEN finish(asked, None)
        ELSE [ asked EXCEPT !.gen.url = url, !.gen.pc = "while" ]

\* lines 252-257: the next item of the page is parsed, a video is made for
\* it, the data is merged into it and it is yielded
do_for(m, su, srv) ==
    IF m.gen.idx >= Len(m.gen.items) THEN do_else(m, su, srv)
    ELSE LET item  == m.gen.items[m.gen.idx + 1]
             made  == get_video(m.it.fields)
             data  == [ f \in {"title", "link"} |-> "item" ]
         IN  IF ~ su.item_data THEN finish(m, None)
             ELSE IF made.raised # None THEN finish(m, made.raised)
             ELSE [ m EXCEPT !.gen.idx = @ + 1,
                             !.gen.video = apply_video_data(made.video, data),
                             !.log.emitted = Append(@, item),
                             !.gen.pc = "yielded" ]

\* lines 258-261: after the yield the cap is checked; break leaves the for
\* loop for the condition of the while loop
do_resume(m) ==
    IF m.it.max_results.is_none THEN [ m EXCEPT !.gen.pc = "for" ]
    ELSE LET item_count == m.gen.item_count + 1
         IN  IF item_count >= m.it.max_results.value
             THEN [ m EXCEPT !.gen.item_count = item_count, !.gen.pc = "while" ]
             ELSE [ m EXCEPT !.gen.item_count = item_count, !.gen.pc = "for" ]

\* the body of __iter__ from the position m.gen.pc to the next yield or to
\* its end
RECURSIVE run_body(_, _, _, _)
run_body(m, su, srv, net) ==
    CASE m.gen.pc = "start" -> run_body(do_start(m, su), su, srv, net)
      [] m.gen.pc = "while" -> run_body(do_while(m), su, srv, net)
      [] m.gen.pc = "fetch" -> run_body(do_fetch(m, su, srv, net), su, srv, net)
      [] m.gen.pc = "for"   -> run_body(do_for(m, su, srv), su, srv, net)
      [] OTHER              -> m

\* next() that runs the body from its first statement again on a finished
\* generator
generator_next_restart(m, su, srv, net) ==
    CASE m.gen.pc = "start"   -> run_body(m, su, srv, net)
      [] m.gen.pc = "yielded" -> run_body(do_resume(m), su, srv, net)
      [] OTHER                -> run_body([ m EXCEPT !.gen = new_generator(m.it) ],
                                          su, srv, net)

\* next() on the generator: a started generator resumes after its yield, a
\* finished one raises StopIteration and runs nothing
generator_next(m, su, srv, net) ==
    CASE m.gen.pc = "start"   -> run_body(m, su, srv, net)
      [] m.gen.pc = "yielded" -> run_body(do_resume(m), su, srv, net)
      [] OTHER                -> [ m EXCEPT !.log.raised = None ]

----------------------------------------------------------------------------
(* Iteration over a search or a feed: state and operations                  *)

\* the numbers of items a page of a remote listing may hold
PageSizes == {0, 2, 10}

\* the remote listings: one to MaxPages pages
Listings == UNION { [ 1..n -> PageSizes ] : n \in 1..MaxPages }

\* no iterator constructed yet; the suite is given by its iteration accessors
InitIter ==
    /\ suite \in IterSuites
    /\ server \in Listings
    /\ it = NoIterator
    /\ gen = NoGenerator
    /\ log = NoLog
    /\ registry = SuiteRegistry_init
    /\ video = ScrapedVideo_init([ is_none |-> TRUE, names |-> {} ])
    /\ fetches = <<>>
    /\ calls = 0
    /\ last = [ op |-> None ]

\* ScrapedSearch(query, suite, crawl=..., max_results=...)
NewScrapedSearch ==
    /\ it = NoIterator
    /\ log.raised = None
    /\ \E crawl \in BOOLEAN, max_results \in MaxResultsArgs :
         LET made == ScrapedSearch_init(crawl, max_results)
         IN  /\ it' = made.object
             /\ log' = [ log EXCEPT !.raised = made.raised ]
    /\ UNCHANGED <<registry, suite, video, fetches, calls, last, gen, server>>

\* ScrapedFeed(url, suite=..., crawl=..., max_results=...), the suite None
\* or an instance of a class with any declaration of the two patterns
NewScrapedFeed ==
    /\ it = NoIterator
    /\ log.raised = None
    /\ \E classes \in FeedClassDefinitions, url \in Urls,
          suite_arg \in FeedSuiteArgs,
          crawl \in BOOLEAN, max_results \in MaxResultsArgs :
         LET made == ScrapedFeed_init(classes, registry, url, suite_arg,
                                      crawl, max_results)
         IN  /\ it' = made.object
             /\ log' = [ log EXCEPT !.raised = made.raised ]
    /\ UNCHANGED <<registry, suite, video, fetches, calls, last, gen, server>>

\* __iter__ as a plain function: the body runs when it is called
iter_call_eager(m, su, srv) ==
    run_body([ m EXCEPT !.gen = new_generator(m.it) ], su, srv, "ok")

\* the call of __iter__ itself: a generator function returns a generator
\* positioned before its first statement
iter_call(m, su, srv) ==
    [ m EXCEPT !.gen = new_generator(m.it) ]

\* iter(iterator): a new pass; the generator of an earlier pass is dropped
Iter ==
    /\ it # NoIterator
    /\ log.passes < MaxPasses
    /\ LET m == iter_call(
                  [ it |-> it, gen |-> gen,
                    log |-> [ log EXCEPT !.passes = @ + 1, !.pulls = 0,
                                         !.fetched = <<>>, !.emitted = <<>>,
                                         !.next_url_calls = 0, !.raised = None,
                                         !.ended_before = @ \/ gen.pc = "done" ] ],
                  suite, server)
       IN  /\ it' = m.it
           /\ gen' = m.gen
           /\ log' = m.log
    /\ UNCHANGED <<registry, suite, video, fetches, calls, last, server>>

\* next(generator): the consumer pulls one record
Pull ==
    /\ gen # NoGenerator
    /\ log.pulls < MaxPulls
    /\ \E net \in {"ok", "error"} :
         LET m == generator_next(
                    [ it |-> it, gen |-> gen,
                      log |-> [ log EXCEPT !.pulls = @ + 1 ] ],
                    suite, server, net)
         IN  /\ it' = m.it
             /\ gen' = m.gen
             /\ log' = m.log
    /\ UNCHANGED <<registry, suite, video, fetches, calls, last, server>>

NextIter == NewScrapedSearch \/ NewScrapedFeed \/ Iter \/ Pull

SpecIter == InitIter /\ [][NextIter]_vars

----------------------------------------------------------------------------
(* The registry: state and operations                                       *)
(* suite holds the class definitions, calls counts the suite instances      *)
(* created, last is what the last operation did                             *)

InitRegistry ==
    /\ suite \in ClassDefinitions
    /\ registry = SuiteRegistry_init
    /\ video = NoVideo
    /\ fetches = <<>>
    /\ calls = 0
    /\ last = [ op |-> None ]
    /\ it = NoIterator
    /\ gen = NoGenerator
    /\ server = NoServer
    /\ log = NoLog

\* what a registry operation left behind, for the properties to read
DidRegistry(op, arg, raised, found, v) ==
    [ op     |-> op,
      arg    |-> arg,
      before |-> registry,
      raised |-> raised,
      suite  |-> found,
      video  |-> v ]

\* registry.register(suite_class)
Register ==
    /\ Len(registry.suites) <= MaxSuites
    /\ \E c \in SuiteClasses :
         /\ registry' = register(registry, c, calls + 1)
         /\ calls' = IF registry' = registry THEN calls ELSE calls + 1
         /\ last' = DidRegistry("register", c, None, NoSuite, NoVideo)
    /\ UNCHANGED <<suite, video, fetches, it, gen, server, log>>

\* registry.unregister(suite_class)
Unregister ==
    /\ \E c \in SuiteClasses :
         LET r == unregister(registry, c)
         IN  /\ registry' = r.registry
             /\ last' = DidRegistry("unregister", c, r.raised, NoSuite, NoVideo)
    /\ UNCHANGED <<suite, video, fetches, calls, it, gen, server, log>>

\* registry.suite_for_video_url(url)
SuiteForVideoUrl ==
    /\ \E url \in Urls :
         LET r == suite_for_video_url(suite, registry.suites, url, 1)
         IN  last' = DidRegistry("suite_for_video_url", url, r.raised, r.suite, NoVideo)
    /\ UNCHANGED <<registry, suite, video, fetches, calls, it, gen, server, log>>

\* registry.suite_for_feed_url(url)
SuiteForFeedUrl ==
    /\ \E url \in Urls :
         LET r == suite_for_feed_url(suite, registry.suites, url, 1)
         IN  last' = DidRegistry("suite_for_feed_url", url, r.raised, r.suite, NoVideo)
    /\ UNCHANGED <<registry, suite, video, fetches, calls, it, gen, server, log>>

\* ScrapedVideo(url) and ScrapedVideo(url, suite=...): the constructor makes
\* no request
NewScrapedVideo ==
    /\ \E url \in Urls, suite_arg \in SuiteArgs(registry) :
         LET r == ScrapedVideo_new(suite, registry, url, suite_arg,
                                   [ is_none |-> TRUE, names |-> {} ])
         IN  last' = DidRegistry(IF suite_arg.is_none THEN "ScrapedVideo"
                                 ELSE "ScrapedVideo_suite",
                                 url, r.raised, r.suite, r.video)
    /\ UNCHANGED <<registry, suite, video, fetches, calls, it, gen, server, log>>

NextRegistry ==
    Register \/ Unregister \/ SuiteForVideoUrl \/ SuiteForFeedUrl \/ NewScrapedVideo

SpecRegistry == InitRegistry /\ [][NextRegistry]_vars

----------------------------------------------------------------------------
(* Properties of the planner                                                *)

\* the order of the combinations as the specification states it
PriorityOrder ==
    << {"oembed"}, {"api"}, {"scrape"},
       {"oembed", "api"}, {"oembed", "scrape"}, {"api", "scrape"},
       {"oembed", "api", "scrape"} >>

\* the fields of `missing` that the strategies of a combination leave uncovered
Uncovered(s, missing, combo) ==
    { f \in missing :
        /\ "oembed" \in combo => f \notin s.oembed_fields
        /\ "api" \in combo    => f \notin s.api_fields
        /\ "scrape" \in combo => f \notin s.scrape_fields }

AsSet(seq) == { seq[i] : i \in DOMAIN seq }

\* the last call ran the planner on a non-empty set of missing fields and
\* executed a combination
Executed ==
    /\ last.op \in {"load", "load_video_data"}
    /\ last.plan # <<>>

ExecutedCount == Cardinality(Uncovered(suite, last.missing, AsSet(last.plan)))

\* C1: the combination load_video_data executes leaves a minimal number of
\* missing fields uncovered among the seven combinations, and it is the
\* earliest combination of the fixed order that reaches that number
C1_MinimalRemainingEarliest ==
    Executed =>
        \E k \in DOMAIN PriorityOrder :
            /\ PriorityOrder[k] = AsSet(last.plan)
            /\ \A j \in DOMAIN PriorityOrder :
                  Cardinality(Uncovered(suite, last.missing, PriorityOrder[j]))
                      >= ExecutedCount
            /\ \A j \in 1..(k - 1) :
                  Cardinality(Uncovered(suite, last.missing, PriorityOrder[j]))
                      > ExecutedCount

\* a best-effort run of two strategies that the three strategies together
\* would only have equalled
C1_Witness ==
    /\ Executed
    /\ Len(last.plan) = 2
    /\ ExecutedCount > 0
    /\ Cardinality(Uncovered(suite, last.missing, Methods)) = ExecutedCount

\* C2: no combination with fewer strategies reaches the number of uncovered
\* fields of the executed one, and a run that ends normally fetched exactly
\* the strategies of the executed combination, once each; with oEmbed
\* covering {title, thumbnail_url}, the API covering {title, description,
\* file_url}, {title, description, thumbnail_url} missing and a scrape that
\* does not cover all three, these are oEmbed and the API
C2_FewestStrategies ==
    Executed =>
        /\ \A j \in DOMAIN PriorityOrder :
              Cardinality(Uncovered(suite, last.missing, PriorityOrder[j]))
                  = ExecutedCount
              => Cardinality(PriorityOrder[j]) >= Len(last.plan)
        /\ last.raised = None => last.fetched = last.plan
        /\ Len(last.plan) = Cardinality(AsSet(last.plan))
        /\ ( /\ suite.oembed_fields = {"title", "thumbnail_url"}
             /\ suite.api_fields = {"title", "description", "file_url"}
             /\ last.missing = {"title", "description", "thumbnail_url"}
             /\ ~ (last.missing \subseteq suite.scrape_fields) )
           => last.plan = <<"oembed", "api">>

\* the scenario of C2, run to its end, with a scrape that covers the
\* description too
C2_Witness ==
    /\ suite.scrape_fields = {"description"}
    /\ Executed
    /\ suite.oembed_fields = {"title", "thumbnail_url"}
    /\ suite.api_fields = {"title", "description", "file_url"}
    /\ last.missing = {"title", "description", "thumbnail_url"}
    /\ last.raised = None
    /\ last.fetched = <<"oembed", "api">>

\* C3: load_video_data on a record with no missing field fetches nothing
\* and leaves every attribute as it was
C3_NothingMissingNoFetch ==
    (last.op = "load_video_data" /\ last.missing = {}) =>
        /\ last.fetched = <<>>
        /\ last.raised = None
        /\ video.attrs = last.before
        /\ video.loaded = last.loaded

\* load_video_data called on a record that an earlier load filled
C3_Witness ==
    /\ last.op = "load_video_data"
    /\ last.missing = {}
    /\ video.fields # {}
    /\ fetches # <<>>

\* C4: first writer wins. A step never changes an attribute that holds a
\* value, and an attribute that a run of strategies fills holds the value of
\* the first strategy of that run, in the order fetched, that supplies it
C4_FirstWriterWins ==
    [][ \A f \in all_fields :
          /\ video.attrs[f] # None => video'.attrs[f] = video.attrs[f]
          /\ ( /\ video.attrs[f] = None
               /\ video'.attrs[f] # None
               /\ last'.op # "apply_video_data" )
             => \E i \in DOMAIN last'.supplied :
                   /\ f \in method_fields(suite, last'.fetched[i])
                   /\ video'.attrs[f] = last'.supplied[i][f]
                   /\ video'.attrs[f] = ToString(Len(fetches) + i)
                   /\ \A j \in 1..(i - 1) :
                         \/ f \notin DOMAIN last'.supplied[j]
                         \/ last'.supplied[j][f] = None ]_vars

\* a run of two strategies that ended normally, both supplying a requested
\* field that a feed or search item had filled before
C4_Witness ==
    /\ Executed
    /\ last.raised = None
    /\ \E f \in video.fields :
          /\ last.before[f] = "item"
          /\ Len(last.fetched) = 2
          /\ \A i \in DOMAIN last.fetched : f \in method_fields(suite, last.fetched[i])

----------------------------------------------------------------------------
(* Properties of the iteration                                              *)

\* the suite implements every accessor the iteration uses and pages
Capable ==
    /\ suite.first_url
    /\ suite.response = "override"
    /\ suite.item_data
    /\ suite.next_url = "paged"

\* the items of the pages from the k-th on, up to the first empty page
RECURSIVE ItemsFrom(_, _)
ItemsFrom(srv, k) ==
    IF k > Len(srv) \/ srv[k] = 0 THEN <<>>
    ELSE [ i \in 1..srv[k] |-> <<k, i>> ] \o ItemsFrom(srv, k + 1)

\* the items an iteration has available: those of the first page, and with
\* crawl those of the pages that follow up to the first empty one
Available ==
    IF it.crawl THEN ItemsFrom(server, 1)
    ELSE [ i \in 1..server[1] |-> <<1, i>> ]

Min(a, b) == IF a <= b THEN a ELSE b

\* a pass over an iterator that has run to its end without a network error
PassEnded ==
    /\ it # NoIterator
    /\ gen # NoGenerator
    /\ gen.pc = "done"
    /\ log.raised # "URLError"

\* C5: with a cap N an iteration never emits more than N records, fetches
\* nothing when N = 0, and run to its end on a suite that implements the
\* accessors has emitted min(N, items available) records, the last page
\* fetched being the page of the N-th record when N records were emitted
C5_PaginationCap ==
    (it # NoIterator /\ ~ it.max_results.is_none) =>
        /\ Len(log.emitted) <= it.max_results.value
        /\ it.max_results.value = 0 => log.fetched = <<>>
        /\ (PassEnded /\ Capable) =>
              /\ Len(log.emitted) = Min(it.max_results.value, Len(Available))
              /\ (it.max_results.value >= 1
                  /\ Len(log.emitted) = it.max_results.value)
                 => page_of(log.fetched[Len(log.fetched)], server)
                       = log.emitted[Len(log.emitted)][1]

\* C6: the pages of a pass are fetched once each and in order, the records
\* emitted are a prefix of the items of the pages fetched, and a pass over 3
\* pages of 10 items with max_results = 15 and crawl fetches 2 pages and
\* emits 15 records
C6_OrderedPrefix ==
    it # NoIterator =>
        /\ \A i \in DOMAIN log.fetched : log.fetched[i] = page_url(i)
        /\ Len(log.emitted) <= Len(Available)
        /\ \A j \in DOMAIN log.emitted : log.emitted[j] = Available[j]
        /\ ( /\ PassEnded /\ Capable
             /\ server = <<10, 10, 10>>
             /\ it.crawl
             /\ ~ it.max_results.is_none /\ it.max_results.value = 15 )
           => /\ Len(log.fetched) = 2
              /\ Len(log.emitted) = 15

\* C7: a pass over an iterator with crawl disabled, whose cap admits a
\* record, fetches exactly one page and does not ask for the next url
C7_NoCrawlOnePage ==
    ( /\ PassEnded /\ Capable
      /\ ~ it.crawl
      /\ (it.max_results.is_none \/ it.max_results.value >= 1) )
    => /\ Len(log.fetched) = 1
       /\ log.next_url_calls = 0

\* C8: a page without items is the last page a pass fetches, and once its
\* response has arrived the pass has ended normally
C8_EmptyPageEnds ==
    \A i \in DOMAIN log.fetched :
        server[page_of(log.fetched[i], server)] = 0 =>
            /\ i = Len(log.fetched)
            /\ gen.pc = "done"
            /\ gen.response.url = log.fetched[i] => log.raised = None

\* an empty first page of a longer listing, fetched with crawl by a suite
\* that pages, and the pass ended normally
C8_Witness ==
    /\ it # NoIterator /\ it.crawl
    /\ suite.next_url = "paged"
    /\ Len(server) > 1 /\ server[1] = 0
    /\ log.fetched = << page_url(1) >>
    /\ log.responses # <<>>
    /\ gen.pc = "done" /\ log.raised = None

\* C9: a page is requested only inside a pull of the consumer, one page per
\* pull, either by the first pull of a pass or by a pull that finds every
\* item of the current page yielded; without a pull nothing is fetched
C9_LazyConsumerDriven ==
    [][ log'.requests # log.requests =>
          /\ log'.pulls = log.pulls + 1
          /\ log'.requests = log.requests + 1
          /\ gen # NoGenerator
          /\ gen.pc \in {"start", "yielded"}
          /\ gen.pc = "yielded" => gen.idx = Len(gen.items) ]_vars

\* a page fetched by the first pull of a second pass
C9_Witness ==
    /\ log.passes = 2
    /\ log.pulls = 1
    /\ log.requests = 2
    /\ log.fetched = << page_url(1) >>

\* C10: the metadata of an iterator is unset until a response has arrived,
\* is then that of the first response the iterator received, and is not
\* assigned again by any later fetch or pass
C10_MetadataOnce ==
    /\ [] ( it # NoIterator =>
              IF log.responses = <<>>
              THEN /\ ~ it.first_response_fetched
                   /\ it.total_results = None /\ it.time = None
                   /\ log.handled = 0
              ELSE /\ it.first_response_fetched
                   /\ it.total_results = log.responses[1]
                   /\ it.time = log.responses[1]
                   /\ log.handled = 1 )
    /\ [][ (it # NoIterator /\ it.first_response_fetched) =>
              /\ it'.total_results = it.total_results
              /\ it'.time = it.time
              /\ it'.first_response_fetched
              /\ log'.handled = log.handled ]_vars

\* a second pass has fetched the first page again and the metadata is still
\* that of the first response
C10_Witness ==
    /\ it # NoIterator
    /\ log.passes = 2
    /\ Len(log.responses) = 2
    /\ it.total_results = "1"
    /\ it.time = "1"

\* no record is ever yielded
NeverYields == gen # NoGenerator => gen.pc # "yielded" /\ log.emitted = <<>>

----------------------------------------------------------------------------
(* Properties of the registry                                               *)

\* a class's declared video pattern matches the url
VideoClaims(class, url) ==
    class.video_regex.declared /\ url \in class.video_regex.matches

\* a class's declared feed pattern matches the url
FeedClaims(class, url) ==
    class.feed_regex.declared /\ url \in class.feed_regex.matches

\* the positions of the registered suites whose class satisfies Claims
VideoClaimers(url) ==
    { i \in DOMAIN registry.suites : VideoClaims(suite[registry.suites[i].class], url) }

FeedClaimers(url) ==
    { i \in DOMAIN registry.suites : FeedClaims(suite[registry.suites[i].class], url) }

\* the least element of a non-empty set of positions
First(S) == CHOOSE i \in S : \A j \in S : i <= j

\* C11: suite_for_video_url(url) returns the suite registered first among
\* those whose video pattern matches the url: the returned suite claims the
\* url and no suite registered before it does
C11_FirstClaimingSuite ==
    (last.op = "suite_for_video_url" /\ VideoClaimers(last.arg) # {}) =>
       /\ last.raised = None
       /\ \E i \in DOMAIN registry.suites :
            /\ last.suite = registry.suites[i]
            /\ VideoClaims(suite[registry.suites[i].class], last.arg)
            /\ \A j \in 1 .. i - 1 :
                 ~VideoClaims(suite[registry.suites[j].class], last.arg)

\* three suites are registered, the first declares a pattern that does not
\* match, the second and the third both match, and the second is returned
C11_Witness ==
    /\ last.op = "suite_for_video_url"
    /\ Len(registry.suites) = 3
    /\ suite[registry.suites[1].class].video_regex.declared
    /\ VideoClaimers(last.arg) = {2, 3}
    /\ last.suite = registry.suites[2]

\* C12: when no registered suite's video pattern matches the url,
\* suite_for_video_url and ScrapedVideo(url) without a suite raise
\* CantIdentifyUrl, make no video, fetch nothing and leave the registry as
\* it was
C12_NoSuiteCantIdentify ==
    (last.op \in {"suite_for_video_url", "ScrapedVideo"}
        /\ VideoClaimers(last.arg) = {}) =>
       /\ last.raised = "CantIdentifyUrl"
       /\ last.suite = NoSuite
       /\ last.video = NoVideo
       /\ fetches = <<>>
       /\ registry = last.before

\* ScrapedVideo(url) was refused with two suites registered: one declares a
\* video pattern that does not match the url, the other declares none
C12_Witness ==
    /\ last.op = "ScrapedVideo"
    /\ last.raised = "CantIdentifyUrl"
    /\ Len(registry.suites) >= 2
    /\ \E i, j \in DOMAIN registry.suites :
         /\ suite[registry.suites[i].class].video_regex.declared
         /\ ~suite[registry.suites[j].class].video_regex.declared

\* the result of the classifier the last scan called on the i-th suite
Answer(i) ==
    IF last.op = "suite_for_feed_url"
    THEN handles_feed_url(suite[registry.suites[i].class], last.arg)
    ELSE handles_video_url(suite[registry.suites[i].class], last.arg)

\* the positions of the suites whose classifier answered true
Answering == { i \in DOMAIN registry.suites :
                 Answer(i).raised = None /\ Answer(i).value }

\* C13: in a scan of the registry, for a video or for a feed, a suite whose
\* classifier raises NotImplementedError is passed over: the scan never
\* raises NotImplementedError, it returns the first suite whose classifier
\* answers true wherever the raising suites stand, and raises CantIdentifyUrl
\* only when no classifier answers true
C13_UndeclaredSkipped ==
    (last.op \in {"suite_for_video_url", "suite_for_feed_url"}) =>
       /\ last.raised # "NotImplementedError"
       /\ Answering # {} =>
            /\ last.raised = None
            /\ last.suite = registry.suites[First(Answering)]
       /\ Answering = {} => last.raised = "CantIdentifyUrl"

\* a feed scan returned the second suite after the classifier of the first
\* raised NotImplementedError
C13_Witness ==
    /\ last.op = "suite_for_feed_url"
    /\ Len(registry.suites) >= 2
    /\ Answer(1).raised = "NotImplementedError"
    /\ last.raised = None
    /\ last.suite = registry.suites[2]

\* C14: suite_for_feed_url(url) returns the first registered suite whose
\* feed pattern is declared and matches the url, whatever the video
\* patterns are, and raises CantIdentifyUrl when there is none
C14_FeedClassifier ==
    (last.op = "suite_for_feed_url") =>
       IF FeedClaimers(last.arg) = {}
       THEN last.raised = "CantIdentifyUrl"
       ELSE /\ last.raised = None
            /\ last.suite = registry.suites[First(FeedClaimers(last.arg))]

\* C15: whatever register and unregister calls were made, the registry's
\* suites hold at most one instance per suite class, in the order the
\* instances were created by register, and they are exactly the instances
\* its dictionary records; registering a registered suite changes nothing
C15_RegistryConsistent ==
    /\ \A i, j \in DOMAIN suites_of(registry) :
         suites_of(registry)[i].class = suites_of(registry)[j].class => i = j
    /\ \A i, j \in DOMAIN suites_of(registry) :
         i < j => suites_of(registry)[i].serial < suites_of(registry)[j].serial
    /\ { suites_of(registry)[i] : i \in DOMAIN suites_of(registry) }
          = { registry.suite_dict[c] : c \in DOMAIN registry.suite_dict }
    /\ \A c \in DOMAIN registry.suite_dict : registry.suite_dict[c].class = c
    /\ (last.op = "register" /\ last.arg \in DOMAIN last.before.suite_dict) =>
          registry = last.before
    /\ (last.op = "register" /\ last.arg \notin DOMAIN last.before.suite_dict) =>
          /\ Len(registry.suites) = Len(last.before.suites) + 1
          /\ SubSeq(registry.suites, 1, Len(last.before.suites)) = last.before.suites
          /\ registry.suites[Len(registry.suites)].class = last.arg

\* a suite that is already registered, with another one, was registered
\* again
C15_Witness ==
    /\ last.op = "register"
    /\ last.arg \in DOMAIN last.before.suite_dict
    /\ Len(registry.suites) >= 2

\* C16: unregister(suite) returns without an exception; a registered suite
\* is removed from the list and from the dictionary, an unregistered one
\* leaves the registry as it was
C16_UnregisterCompletes ==
    (last.op = "unregister") =>
       /\ last.raised = None
       /\ last.arg \notin DOMAIN registry.suite_dict
       /\ \A i \in DOMAIN registry.suites : registry.suites[i].class # last.arg
       /\ last.arg \notin DOMAIN last.before.suite_dict => registry = last.before


----------------------------------------------------------------------------
(* Properties of hydration                                                  *)

\* C17: a load() that returns normally leaves is_loaded() true, whether or
\* not every requested field got a value; _loaded is never reset; and a
\* load() on a loaded video fetches nothing, raises nothing and changes no
\* attribute
C17_LoadIdempotent ==
    /\ (last.op = "load" /\ last.raised = None) => video.loaded
    /\ (last.op # None /\ last.loaded) => video.loaded
    /\ (last.op = "load" /\ last.loaded) =>
          /\ last.fetched = <<>>
          /\ last.raised = None
          /\ video.attrs = last.before

\* the first load() fetched and returned with requested fields the suite
\* covers still unset, and a second load() was made
C17_Witness ==
    /\ last.op = "load"
    /\ last.loaded
    /\ calls = 2
    /\ fetches # <<>>
    /\ \E f \in missing_fields(video) :
         \E m \in Methods : f \in method_fields(suite, m)

\* the positions of the fetches of the last run whose parser returned a
\* value for f
Writers(f) ==
    { i \in DOMAIN last.supplied :
        f \in DOMAIN last.supplied[i] /\ last.supplied[i][f] # None }

\* C18: a run of a combination returns normally only when every strategy of
\* it was fetched and parsed. When the fetch or the parse of a strategy
\* fails, the exception comes out of the call, the strategies fetched are
\* the combination up to the failing one, each once, none after it, and
\* every field holds what it held before the call or what the first
\* strategy before the failure supplied for it
C18_FailurePropagates ==
    /\ (Executed /\ last.raised = None) => Len(last.supplied) = Len(last.plan)
    /\ (Executed /\ last.raised \in {"URLError", "ValueError"}) =>
          /\ Len(last.supplied) < Len(last.plan)
          /\ Len(last.fetched) = Len(last.supplied) + 1
          /\ last.fetched = SubSeq(last.plan, 1, Len(last.fetched))
          /\ \A f \in all_fields :
               video.attrs[f] =
                  IF f \in last.missing /\ Writers(f) # {}
                  THEN last.supplied[First(Writers(f))][f]
                  ELSE last.before[f]

\* of a combination of three strategies the second failed after the first
\* had filled a field: the third was not fetched and the field is kept
C18_Witness ==
    /\ Executed
    /\ last.raised \in {"URLError", "ValueError"}
    /\ Len(last.plan) = 3
    /\ Len(last.fetched) = 2
    /\ \E f \in last.missing : video.attrs[f] = "1"

\* C19: NotImplementedError never comes out: a load() or load_video_data()
\* whose combination holds a strategy without url builder or without parser
\* does not raise it, and a pass over an iterator does not end with it
C19_UnimplementedNotSurfaced ==
    /\ (last.op \in {"load", "load_video_data"}) =>
          last.raised # "NotImplementedError"
    /\ gen # NoGenerator => log.raised # "NotImplementedError"

----------------------------------------------------------------------------
(* Properties of re-iteration                                               *)

\* C20: once a pass over an iterator has run to its end, a later pass over
\* the same iterator fetches nothing and emits nothing
C20_NotRestartable ==
    (it # NoIterator /\ log.ended_before) =>
        /\ log.fetched = <<>>
        /\ log.emitted = <<>>

\* C20, as the code has it: a generator that has run to its end stays at
\* its end, and next() on it fetches nothing, emits nothing and leaves the
\* iterator as it is; every pass, the first or a later one, starts from the
\* first url
C20_GeneratorForwardOnly ==
    /\ [][ (gen.pc = "done" /\ log'.passes = log.passes) =>
              /\ gen'.pc = "done"
              /\ log'.requests = log.requests
              /\ log'.fetched = log.fetched
              /\ log'.emitted = log.emitted
              /\ it' = it ]_vars
    /\ [](log.fetched # <<>> => log.fetched[1] = page_url(1))

\* a second pass, made after the first had ended, fetched the first page
\* again and ended, and next() was called once more on its generator
C20_Witness ==
    /\ gen.pc = "done"
    /\ log.ended_before
    /\ log.passes = 2
    /\ log.fetched = << page_url(1) >>
    /\ log.requests = 2
    /\ log.pulls >= 2

----------------------------------------------------------------------------
(* Further properties of hydration                                          *)

\* C21: the fields of a video are names of _all_fields, and an attribute
\* that is not one of the video's fields is None in every state, whatever
\* the strategies' responses and the items of a feed or search supplied
C21_OnlyRequestedStored ==
    /\ video.fields \subseteq all_fields
    /\ \A f \in all_fields \ video.fields : video.attrs[f] = None

\* the data of a feed entry, which holds known fields and a key that names
\* no field, was merged into a video that asks for some of them: the
\* requested fields took their values, the others are still None
C21_Witness ==
    /\ last.op = "apply_video_data"
    /\ UnknownField \in last.plan
    /\ video.fields \cap last.plan # {}
    /\ (last.plan \cap all_fields) \ video.fields # {}
    /\ \A f \in video.fields \cap last.plan : video.attrs[f] = "item"

\* C22: when no method covers any of the missing fields, load_video_data
\* selects no combination, fetches nothing, returns normally and leaves
\* every attribute as it was, the missing fields still None
C22_NothingCoverableNoFetch ==
    ( /\ last.op \in {"load", "load_video_data"}
      /\ last.missing # {}
      /\ \A m \in Methods : method_fields(suite, m) \cap last.missing = {} )
    => /\ last.plan = <<>>
       /\ last.fetched = <<>>
       /\ last.raised = None
       /\ video.attrs = last.before
       /\ \A f \in last.missing : video.attrs[f] = None

\* every method covers some field, none covers a missing one, and
\* load_video_data has returned
C22_Witness ==
    /\ last.op = "load_video_data"
    /\ last.missing # {}
    /\ \A m \in Methods :
         /\ method_fields(suite, m) # {}
         /\ method_fields(suite, m) \cap last.missing = {}
    /\ fetches = <<>>

\* the place of a method in the order oembed, api, scrape
Rank(method) ==
    CASE method = "oembed" -> 1
      [] method = "api"    -> 2
      [] method = "scrape" -> 3

\* C23: an executed combination names at most three strategies in the
\* order oembed, api, scrape; the fetches of the run are the combination
\* from its start, one per strategy, all of it when the run returns
\* normally; and a field that several strategies of the run supplied holds
\* the value of the earliest of them
C23_OneFetchPerStrategyInOrder ==
    Executed =>
       /\ Len(last.plan) <= 3
       /\ \A i, j \in DOMAIN last.plan :
            i < j => Rank(last.plan[i]) < Rank(last.plan[j])
       /\ Len(last.fetched) <= Len(last.plan)
       /\ last.fetched = SubSeq(last.plan, 1, Len(last.fetched))
       /\ last.raised = None => last.fetched = last.plan
       /\ \A i \in DOMAIN last.supplied :
            DOMAIN last.supplied[i] = method_fields(suite, last.plan[i])
       /\ \A f \in last.missing :
            Writers(f) # {} =>
               video.attrs[f] = last.supplied[First(Writers(f))][f]

\* a run of all three strategies returned, and a field that two of them
\* supplied holds the value of the earlier one
C23_Witness ==
    /\ Executed
    /\ last.raised = None
    /\ last.fetched = <<"oembed", "api", "scrape">>
    /\ \E f \in last.missing :
         /\ Cardinality(Writers(f)) >= 2
         /\ video.attrs[f] = last.supplied[First(Writers(f))][f]

\* C26: every strategy of an executed combination covers a missing field
\* that no other strategy of the combination covers, so that the
\* combination without it would leave more fields uncovered
C26_NoUselessStrategy ==
    Executed =>
       \A i \in DOMAIN last.plan :
          /\ \E f \in last.missing :
               /\ f \in method_fields(suite, last.plan[i])
               /\ \A j \in DOMAIN last.plan \ {i} :
                    f \notin method_fields(suite, last.plan[j])
          /\ Cardinality(Uncovered(suite, last.missing,
                                   AsSet(last.plan) \ {last.plan[i]}))
                > ExecutedCount

\* a combination of two strategies was executed that cannot fill every
\* missing field, the two covering a missing field in common
C26_Witness ==
    /\ Executed
    /\ Len(last.plan) = 2
    /\ ExecutedCount > 0
    /\ \E f \in last.missing :
         \A i \in DOMAIN last.plan : f \in method_fields(suite, last.plan[i])

\* C27: a load() that raises leaves the video not loaded; and a load() on
\* a video that is not loaded plans over the requested fields that are None
\* at that moment: it executes a combination whenever some method covers
\* one of them, and the combination leaves as few of them uncovered as any
\* of the seven
C27_FailedLoadReplans ==
    /\ (last.op = "load" /\ last.raised # None) => ~ video.loaded
    /\ (last.op = "load" /\ ~ last.loaded) =>
          /\ last.missing = { f \in video.fields : last.before[f] = None }
          /\ (\E m \in Methods : method_fields(suite, m) \cap last.missing # {})
                => last.plan # <<>>
          /\ last.plan # <<>> =>
                \A k \in DOMAIN PriorityOrder :
                   Cardinality(Uncovered(suite, last.missing, PriorityOrder[k]))
                      >= ExecutedCount

\* a second call, a load() on a video that an earlier run has partly
\* filled, planned a combination that starts with another strategy than the
\* earlier run, raised, and the video is not loaded
C27_Witness ==
    /\ last.op = "load"
    /\ calls = 2
    /\ last.raised # None
    /\ ~ video.loaded
    /\ Len(fetches) > Len(last.fetched)
    /\ \E f \in video.fields : last.before[f] = "1"
    /\ last.plan # <<>>
    /\ last.plan[1] # fetches[1]

----------------------------------------------------------------------------
(* Further properties of the iteration                                      *)

\* C24: the first next() on an iterator without a cap, over a suite that
\* implements the accessors and a first page that holds items, yields the
\* record of the first item: the generator stands at its yield, the item is
\* emitted, and the record is not loaded
C24_ItemYieldedUnloaded ==
    ( /\ it # NoIterator
      /\ gen # NoGenerator
      /\ it.max_results.is_none
      /\ Capable
      /\ server[1] > 0
      /\ log.pulls = 1
      /\ log.raised # "URLError" )
    => /\ gen.pc = "yielded"
       /\ log.raised = None
       /\ log.emitted = << <<1, 1>> >>
       /\ ~ gen.video.loaded

\* C25: ScrapedFeed(url, suite, max_results=...) raises nothing but what
\* the test that the suite handles the url raises (CantIdentifyUrl, or the
\* classifier's NotImplementedError), whatever max_results is, and the feed
\* it makes has fetched no page, holds no metadata and has the max_results
\* it was given
C25_FeedConstructs ==
    /\ (it = NoIterator /\ gen = NoGenerator) =>
          log.raised \in {None, "CantIdentifyUrl", "NotImplementedError"}
    /\ (it # NoIterator /\ it.kind = "feed" /\ log.passes = 0) =>
          /\ ~ it.first_response_fetched
          /\ log.fetched = <<>>
          /\ log.requests = 0
          /\ it.max_results \in MaxResultsArgs

\* C28: a pass with a cap N emits at most N records; no pass fetches a
\* page twice; and a pass without a cap, with crawl, over a suite that
\* implements the accessors, that has ended without a network error, has
\* ended at an empty page or at the page that has no next page
C28_EndsAtEmptyOrLastPage ==
    it # NoIterator =>
       /\ ~ it.max_results.is_none => Len(log.emitted) <= it.max_results.value
       /\ \A i, j \in DOMAIN log.fetched :
            log.fetched[i] = log.fetched[j] => i = j
       /\ ( /\ it.max_results.is_none
            /\ it.crawl
            /\ Capable
            /\ gen.pc = "done"
            /\ log.fetched # <<>>
            /\ gen.response.url = log.fetched[Len(log.fetched)] )
          => \/ server[page_of(log.fetched[Len(log.fetched)], server)] = 0
             \/ page_of(log.fetched[Len(log.fetched)], server) = Len(server)

====
